---------------------------- MODULE Spec2Model ----------------------------
(***************************************************************************)
(* A model of three parts of Brevitas:                                     *)
(*   - the export manager (brevitas/export/base.py): handler dispatch,     *)
(*     the caching-flag override/restore protocol and jit_trace;           *)
(*   - the learned bit-width parameters                                    *)
(*     (brevitas/core/bit_width/parameter.py);                             *)
(*   - the straight-through clamp (brevitas/function/ops_ste.py).          *)
(* Python attributes that may be missing are modelled as sequences of      *)
(* length 0 (missing) or 1 (present, holding the value).                   *)
(***************************************************************************)
EXTENDS Integers, Sequences, FiniteSets, TLC

VARIABLES
    \* ---- export manager ----
    modules,          \* the module tree, in the order module.apply visits it
    handlers,         \* BaseManager.handlers (class attribute, ordered)
    pc,               \* position of the current jit_trace call
    pre,              \* the tree as it was when the current call was entered
    input_t,          \* the input_t argument of the current call
    fwd_inputs,       \* inputs of the forward passes run by the current call
    trace_inputs,     \* inputs of the trace entry point in the current call
    traced_model,     \* what the current call returned (missing: nothing)
    error,            \* the exception the last operation raised (missing: none)
    grad_enabled,     \* torch's global grad mode
    next_handler_id,  \* identity of the next handler instance constructed
    calls,            \* jit_trace calls entered so far
    lookup,           \* last module class looked up and handler_from_module's answer
    invocations,      \* the concurrent cache_inp_out invocations: where each stands
    \* ---- bit-width parameters ----
    IGNORE_MISSING_KEYS, \* brevitas.config.IGNORE_MISSING_KEYS, read at import
    ctor_call,        \* the last constructor call: the class and its arguments
    param,            \* the BitWidthParameter / RemoveBitwidthParameter object
    fresh,            \* the object is still as its constructor left it
    param_error,      \* the exception the last operation on it raised
    output,           \* what the last forward() returned (missing: none yet)
    saver,            \* the object whose state is saved
    state_dict,       \* the state dict saved from it, as the loads have left it
    load,             \* the last _load_from_state_dict call: arguments and results
    \* ---- straight-through clamp ----
    NATIVE_STE_BACKEND_LOADED, \* brevitas.NATIVE_STE_BACKEND_LOADED, set at import
    ste_call,         \* arguments of the last tensor_clamp_ste call
    ste_output,       \* the tensor it returned
    ste_grad          \* the last backward pass through it: gradient in and out

export_vars == <<modules, handlers, pc, pre, input_t, fwd_inputs, trace_inputs,
                 traced_model, error, grad_enabled, next_handler_id, calls, lookup,
                 invocations>>

param_vars == <<IGNORE_MISSING_KEYS, ctor_call, param, fresh, param_error, output,
                saver, state_dict, load>>

ste_vars == <<NATIVE_STE_BACKEND_LOADED, ste_call, ste_output, ste_grad>>

vars == <<export_vars, param_vars, ste_vars>>

-----------------------------------------------------------------------------
(* Bounds of the model *)

\* modules in the tree
NumModules == 2
\* jit_trace calls in one behaviour
MaxCalls == 2
\* entries in a manager's handlers list
MaxHandlers == 2

-----------------------------------------------------------------------------
(* Python values *)

\* a missing attribute / an attribute holding v
Absent == <<>>
Attr(v) == <<v>>
hasattr(a) == Len(a) > 0
getattr(a) == a[1]

\* Python's None where a handler instance may stand
NoneHandler == [handler |-> "None", id |-> 0]

\* no exception pending
NoError == [type |-> "none", where |-> "none", args |-> <<>>]

-----------------------------------------------------------------------------
(* Layer classes and the handlers a manager may register *)

Classes == {"Module", "QuantLayer", "QuantConv", "QuantAct"}

\* the direct base class of a layer class ("Module" is torch's root)
BaseOf(c) ==
    CASE c = "QuantConv" -> "QuantLayer"
      [] c = "QuantLayer" -> "Module"
      [] c = "QuantAct" -> "Module"
      [] OTHER -> "Module"

RECURSIVE Ancestors(_)
Ancestors(c) == IF c = "Module" THEN {"Module"} ELSE {c} \cup Ancestors(BaseOf(c))

\* isinstance(module, layer) for a module of class c
isinstance(c, layer) == layer \in Ancestors(c)

\* handler classes: each names the layer type it handles
HandlerClasses ==
    { [name |-> "ConvHandler",  handled_layer |-> "QuantConv"],
      [name |-> "LayerHandler", handled_layer |-> "QuantLayer"],
      [name |-> "ActHandler",   handled_layer |-> "QuantAct"],
      [name |-> "ModuleHandler", handled_layer |-> "Module"] }

RECURSIVE SeqsUpTo(_, _)
SeqsUpTo(S, n) ==
    IF n = 0 THEN {<<>>}
    ELSE LET shorter == SeqsUpTo(S, n - 1)
         IN  shorter \cup {Append(s, x) : s \in shorter, x \in S}

\* every handlers list a manager could declare, up to MaxHandlers entries
HandlerLists == SeqsUpTo(HandlerClasses, MaxHandlers)

\* the handlers lists of the managers the export is run with: BaseManager's own
\* empty list, and subclasses' lists without and with overlapping layer types
ManagerHandlers ==
    { <<>>,
      <<[name |-> "ConvHandler", handled_layer |-> "QuantConv"],
        [name |-> "ActHandler", handled_layer |-> "QuantAct"]>>,
      <<[name |-> "LayerHandler", handled_layer |-> "QuantLayer"],
        [name |-> "ConvHandler", handled_layer |-> "QuantConv"]>>,
      <<[name |-> "ActHandler", handled_layer |-> "QuantAct"],
        [name |-> "ModuleHandler", handled_layer |-> "Module"]>> }


-----------------------------------------------------------------------------
(* Modules of the tree *)

\* a torch module with the attributes the export manager looks at
Mk(cls, meta, bias, inp, out, em, eh, req) ==
    [ cls |-> cls,
      training |-> TRUE,
      cache_quant_io_metadata_only |-> meta,
      cache_inference_quant_bias |-> bias,
      cache_inference_quant_inp |-> inp,
      cache_inference_quant_out |-> out,
      cache_quant_io_metadata_only_backup |-> Absent,
      cache_inference_quant_bias_backup |-> Absent,
      cache_inference_quant_inp_backup |-> Absent,
      cache_inference_quant_out_backup |-> Absent,
      export_mode |-> em,
      export_handler |-> eh,
      requires_export_handler |-> req ]

\* the modules a tree is built from: plain torch modules, quantized layers with
\* every caching flag, layers exposing only some of the flags, with and without
\* the export attributes
ModuleKinds ==
    { Mk("Module", Absent, Absent, Absent, Absent, Absent, Absent, FALSE),
      Mk("QuantConv", Attr(FALSE), Attr(FALSE), Attr(FALSE), Attr(FALSE),
         Attr(FALSE), Attr(NoneHandler), TRUE),
      Mk("QuantConv", Attr(TRUE), Attr(FALSE), Attr(TRUE), Attr(FALSE),
         Attr(TRUE), Attr(NoneHandler), TRUE),
      Mk("QuantLayer", Attr(FALSE), Attr(TRUE), Attr(FALSE), Attr(TRUE),
         Attr(FALSE), Attr(NoneHandler), FALSE),
      Mk("QuantAct", Attr(TRUE), Absent, Attr(FALSE), Attr(TRUE),
         Absent, Attr(NoneHandler), TRUE),
      Mk("QuantAct", Attr(TRUE), Absent, Attr(TRUE), Attr(TRUE),
         Attr(FALSE), Attr(NoneHandler), FALSE),
      Mk("Module", Absent, Attr(FALSE), Absent, Absent, Attr(FALSE), Absent, FALSE),
      Mk("QuantLayer", Absent, Absent, Attr(FALSE), Absent,
         Attr(TRUE), Attr([handler |-> "LayerHandler", id |-> 0]), TRUE) }

Trees == [1..NumModules -> ModuleKinds]

\* the arguments jit_trace is called with: a plain tensor or a QuantTensor,
\* whose shape is that of its value
Inputs ==
    { [type |-> "Tensor", shape |-> <<1, 3>>, dtype |-> "double"],
      [type |-> "QuantTensor", shape |-> <<2, 2>>, dtype |-> "float"] }

\* torch's Module.apply for a function that cannot raise
apply(tree, f(_)) == [i \in DOMAIN tree |-> f(tree[i])]

-----------------------------------------------------------------------------
(* Caching-flag override and restore *)

_override_quant_metadata_caching_mode(m, enabled) ==
    IF hasattr(m.cache_quant_io_metadata_only)
       /\ ~hasattr(m.cache_quant_io_metadata_only_backup)
    THEN [m EXCEPT !.cache_quant_io_metadata_only_backup = m.cache_quant_io_metadata_only,
                   !.cache_quant_io_metadata_only = Attr(enabled)]
    ELSE m

\* an override of the bias flag without the check for an existing backup
_override_bias_caching_mode_unguarded(m, enabled) ==
    IF hasattr(m.cache_inference_quant_bias)
    THEN [m EXCEPT !.cache_inference_quant_bias_backup = m.cache_inference_quant_bias,
                   !.cache_inference_quant_bias = Attr(enabled)]
    ELSE m

_override_bias_caching_mode(m, enabled) ==
    IF hasattr(m.cache_inference_quant_bias)
       /\ ~hasattr(m.cache_inference_quant_bias_backup)
    THEN [m EXCEPT !.cache_inference_quant_bias_backup = m.cache_inference_quant_bias,
                   !.cache_inference_quant_bias = Attr(enabled)]
    ELSE m

\* an override of the input flag without the check for an existing backup
_override_inp_caching_mode_unguarded(m, enabled) ==
    IF hasattr(m.cache_inference_quant_inp)
    THEN [m EXCEPT !.cache_inference_quant_inp_backup = m.cache_inference_quant_inp,
                   !.cache_inference_quant_inp = Attr(enabled)]
    ELSE m

_override_inp_caching_mode(m, enabled) ==
    IF hasattr(m.cache_inference_quant_inp)
       /\ ~hasattr(m.cache_inference_quant_inp_backup)
    THEN [m EXCEPT !.cache_inference_quant_inp_backup = m.cache_inference_quant_inp,
                   !.cache_inference_quant_inp = Attr(enabled)]
    ELSE m

_override_out_caching_mode(m, enabled) ==
    IF hasattr(m.cache_inference_quant_out)
       /\ ~hasattr(m.cache_inference_quant_out_backup)
    THEN [m EXCEPT !.cache_inference_quant_out_backup = m.cache_inference_quant_out,
                   !.cache_inference_quant_out = Attr(enabled)]
    ELSE m

_restore_quant_metadata_caching_mode(m) ==
    IF hasattr(m.cache_quant_io_metadata_only_backup)
    THEN [m EXCEPT !.cache_quant_io_metadata_only = m.cache_quant_io_metadata_only_backup,
                   !.cache_quant_io_metadata_only_backup = Absent]
    ELSE m

_restore_bias_caching_mode(m) ==
    IF hasattr(m.cache_inference_quant_bias_backup)
    THEN [m EXCEPT !.cache_inference_quant_bias = m.cache_inference_quant_bias_backup,
                   !.cache_inference_quant_bias_backup = Absent]
    ELSE m

_restore_inp_caching_mode(m) ==
    IF hasattr(m.cache_inference_quant_inp_backup)
    THEN [m EXCEPT !.cache_inference_quant_inp = m.cache_inference_quant_inp_backup,
                   !.cache_inference_quant_inp_backup = Absent]
    ELSE m

_restore_out_caching_mode(m) ==
    IF hasattr(m.cache_inference_quant_out_backup)
    THEN [m EXCEPT !.cache_inference_quant_out = m.cache_inference_quant_out_backup,
                   !.cache_inference_quant_out_backup = Absent]
    ELSE m

_set_export_mode(m, enabled) ==
    IF hasattr(m.export_mode) THEN [m EXCEPT !.export_mode = Attr(enabled)] ELSE m

\* a cache_inp_out that forgets the pass over the output flag
cache_inp_out_override_three(tree) ==
    LET t1 == apply(tree, LAMBDA m : _override_quant_metadata_caching_mode(m, TRUE))
        t2 == apply(t1, LAMBDA m : _override_bias_caching_mode(m, TRUE))
    IN  apply(t2, LAMBDA m : _override_inp_caching_mode(m, TRUE))

\* the four override passes of cache_inp_out, each over the whole tree
cache_inp_out_override(tree) ==
    LET t1 == apply(tree, LAMBDA m : _override_quant_metadata_caching_mode(m, TRUE))
        t2 == apply(t1, LAMBDA m : _override_bias_caching_mode(m, TRUE))
        t3 == apply(t2, LAMBDA m : _override_inp_caching_mode(m, TRUE))
    IN  apply(t3, LAMBDA m : _override_out_caching_mode(m, TRUE))

\* the four restore passes of cache_inp_out, each over the whole tree
cache_inp_out_restore(tree) ==
    LET t1 == apply(tree, _restore_quant_metadata_caching_mode)
        t2 == apply(t1, _restore_bias_caching_mode)
        t3 == apply(t2, _restore_inp_caching_mode)
    IN  apply(t3, _restore_out_caching_mode)

-----------------------------------------------------------------------------
(* Handler dispatch *)

\* handler_from_module's "return None"
NoHandlerClass == [name |-> "None", handled_layer |-> "None"]

\* the for loop of handler_from_module from entry i of the list on
RECURSIVE handler_from_module_loop(_, _, _)
handler_from_module_loop(hs, cls, i) ==
    IF i > Len(hs) THEN NoHandlerClass
    ELSE IF isinstance(cls, hs[i].handled_layer) THEN hs[i]
    ELSE handler_from_module_loop(hs, cls, i + 1)

\* a lookup that lets a later matching entry override an earlier one
RECURSIVE handler_from_module_last(_, _)
handler_from_module_last(hs, cls) ==
    IF Len(hs) = 0 THEN NoHandlerClass
    ELSE IF isinstance(cls, hs[Len(hs)].handled_layer) THEN hs[Len(hs)]
    ELSE handler_from_module_last(SubSeq(hs, 1, Len(hs) - 1), cls)

handler_from_module(hs, cls) == handler_from_module_loop(hs, cls, 1)

\* a set_export_handler that lets a module without a handler pass even when
\* the module requires one
set_export_handler_lenient(hs, m, nid) ==
    IF hasattr(m.export_handler) /\ getattr(m.export_handler) = NoneHandler
    THEN LET handler == handler_from_module(hs, m.cls)
         IN  IF handler = NoHandlerClass
             THEN [module |-> m, nid |-> nid, error |-> NoError]
             ELSE [module |-> [m EXCEPT !.export_handler =
                                   Attr([handler |-> handler.name, id |-> nid])],
                   nid |-> nid + 1, error |-> NoError]
    ELSE [module |-> m, nid |-> nid, error |-> NoError]

\* a set_export_handler that looks a handler up for every module exposing
\* export_handler, also when one is installed already
set_export_handler_always(hs, m, nid) ==
    IF hasattr(m.export_handler)
    THEN LET handler == handler_from_module(hs, m.cls)
         IN  IF handler = NoHandlerClass /\ m.requires_export_handler
             THEN [module |-> m, nid |-> nid,
                   error |-> [type |-> "RuntimeError", where |-> "set_export_handler",
                              args |-> <<m.cls>>]]
             ELSE IF handler = NoHandlerClass /\ ~m.requires_export_handler
             THEN [module |-> m, nid |-> nid, error |-> NoError]
             ELSE [module |-> [m EXCEPT !.export_handler =
                                   Attr([handler |-> handler.name, id |-> nid])],
                   nid |-> nid + 1, error |-> NoError]
    ELSE [module |-> m, nid |-> nid, error |-> NoError]

\* set_export_handler on one module: the module afterwards, whether it raised,
\* and the next free instance identity
set_export_handler(hs, m, nid) ==
    IF hasattr(m.export_handler) /\ getattr(m.export_handler) = NoneHandler
    THEN LET handler == handler_from_module(hs, m.cls)
         IN  IF handler = NoHandlerClass /\ m.requires_export_handler
             THEN [module |-> m, nid |-> nid,
                   error |-> [type |-> "RuntimeError", where |-> "set_export_handler",
                              args |-> <<m.cls>>]]
             ELSE IF handler = NoHandlerClass /\ ~m.requires_export_handler
             THEN [module |-> m, nid |-> nid, error |-> NoError]
             ELSE [module |-> [m EXCEPT !.export_handler =
                                   Attr([handler |-> handler.name, id |-> nid])],
                   nid |-> nid + 1, error |-> NoError]
    ELSE [module |-> m, nid |-> nid, error |-> NoError]

\* a traversal that undoes its assignments when a module is not supported
RECURSIVE apply_set_export_handler_rollback(_, _, _, _)
apply_set_export_handler_rollback(hs, tree, i, nid) ==
    IF i > Len(tree) THEN [tree |-> tree, nid |-> nid, error |-> NoError]
    ELSE LET r == set_export_handler(hs, tree[i], nid)
         IN  IF r.error.type # "none"
             THEN [tree |-> tree, nid |-> nid, error |-> r.error]
             ELSE LET rest == apply_set_export_handler_rollback(
                                  hs, [tree EXCEPT ![i] = r.module], i + 1, r.nid)
                  IN  IF rest.error.type # "none"
                      THEN [tree |-> tree, nid |-> rest.nid, error |-> rest.error]
                      ELSE rest

\* module.apply(cls.set_export_handler): the modules are visited in order and the
\* first exception ends the traversal, keeping what was assigned before it
RECURSIVE apply_set_export_handler(_, _, _, _)
apply_set_export_handler(hs, tree, i, nid) ==
    IF i > Len(tree) THEN [tree |-> tree, nid |-> nid, error |-> NoError]
    ELSE LET r == set_export_handler(hs, tree[i], nid)
         IN  IF r.error.type # "none"
             THEN [tree |-> tree, nid |-> nid, error |-> r.error]
             ELSE apply_set_export_handler(hs, [tree EXCEPT ![i] = r.module], i + 1, r.nid)

\* Module.eval(): training mode off on every module
eval(tree) == [i \in DOMAIN tree |-> [tree[i] EXCEPT !.training = FALSE]]

-----------------------------------------------------------------------------
(* BaseManager.jit_trace, one action per step of the call *)

\* where an invocation of cache_inp_out stands: pos is the number of its nine
\* statements (four override passes, the forward pass, four restore passes) it
\* has executed; nested is whether all the override passes it has executed ran
\* while the other invocation stood between its own override and restore
\* passes; forced is whether every exposed caching flag was true at its forward
NotStarted == [pos |-> 0, nested |-> Absent, forced |-> Absent]

\* no cache_inp_out invocation is running on its own
NoInvocations == [k \in 1..2 |-> NotStarted]

\* no jit_trace call has been made yet
ExportIdle ==
    /\ pc = "idle"
    /\ pre = modules
    /\ input_t = Absent
    /\ fwd_inputs = <<>>
    /\ trace_inputs = <<>>
    /\ traced_model = Absent
    /\ error = NoError
    /\ grad_enabled = TRUE
    /\ next_handler_id = 1
    /\ calls = 0
    /\ lookup = Absent
    /\ invocations = NoInvocations

InitExport ==
    /\ modules \in Trees
    /\ handlers \in ManagerHandlers
    /\ ExportIdle

\* the caller invokes jit_trace(module, input_t): torch.no_grad() is entered and
\* the module is put in eval mode
JitTraceEnter ==
    /\ pc \in {"idle", "returned", "raised"}
    /\ calls < MaxCalls
    /\ \E inp \in Inputs : input_t' = Attr(inp)
    /\ pc' = "set_export_handler"
    /\ pre' = modules
    /\ modules' = eval(modules)
    /\ fwd_inputs' = <<>>
    /\ trace_inputs' = <<>>
    /\ traced_model' = Absent
    /\ error' = NoError
    /\ grad_enabled' = FALSE
    /\ calls' = calls + 1
    /\ UNCHANGED <<handlers, next_handler_id, lookup,
                   invocations, param_vars, ste_vars>>

\* module.apply(cls.set_export_handler); an exception leaves jit_trace, and the
\* no_grad context restores the grad mode on the way out
JitTraceSetExportHandler ==
    /\ pc = "set_export_handler"
    /\ LET r == apply_set_export_handler(handlers, modules, 1, next_handler_id)
       IN  /\ modules' = r.tree
           /\ next_handler_id' = r.nid
           /\ error' = r.error
           /\ IF r.error.type # "none"
              THEN pc' = "raised" /\ grad_enabled' = TRUE
              ELSE pc' = "cache_override" /\ grad_enabled' = grad_enabled
    /\ UNCHANGED <<handlers, pre, input_t, fwd_inputs, trace_inputs, traced_model,
                   calls, lookup,
                   invocations, param_vars, ste_vars>>

\* cache_inp_out: the four override passes
CacheInpOutOverride ==
    /\ pc = "cache_override"
    /\ modules' = cache_inp_out_override(modules)
    /\ pc' = "forward"
    /\ UNCHANGED <<handlers, pre, input_t, fwd_inputs, trace_inputs, traced_model,
                   error, grad_enabled, next_handler_id, calls, lookup,
                   invocations, param_vars, ste_vars>>

\* cache_inp_out: module.forward(input_t) returns
ForwardReturns ==
    /\ pc = "forward"
    /\ fwd_inputs' = Append(fwd_inputs, getattr(input_t))
    /\ pc' = "cache_restore"
    /\ UNCHANGED <<modules, handlers, pre, input_t, trace_inputs, traced_model,
                   error, grad_enabled, next_handler_id, calls, lookup,
                   invocations, param_vars, ste_vars>>

\* a cache_inp_out that restores the flags in a finally clause
ForwardRaisesAndRestores ==
    /\ pc = "forward"
    /\ fwd_inputs' = Append(fwd_inputs, getattr(input_t))
    /\ modules' = cache_inp_out_restore(modules)
    /\ error' = [type |-> "Exception", where |-> "forward", args |-> <<>>]
    /\ pc' = "raised"
    /\ grad_enabled' = TRUE
    /\ UNCHANGED <<handlers, pre, input_t, trace_inputs, traced_model,
                   next_handler_id, calls, lookup,
                   invocations, param_vars, ste_vars>>

\* cache_inp_out: module.forward(input_t) raises; nothing catches it, so
\* cache_inp_out and jit_trace are left at once
ForwardRaises ==
    /\ pc = "forward"
    /\ fwd_inputs' = Append(fwd_inputs, getattr(input_t))
    /\ error' = [type |-> "Exception", where |-> "forward", args |-> <<>>]
    /\ pc' = "raised"
    /\ grad_enabled' = TRUE
    /\ UNCHANGED <<modules, handlers, pre, input_t, trace_inputs, traced_model,
                   next_handler_id, calls, lookup,
                   invocations, param_vars, ste_vars>>

\* cache_inp_out: the four restore passes
CacheInpOutRestore ==
    /\ pc = "cache_restore"
    /\ modules' = cache_inp_out_restore(modules)
    /\ pc' = "set_export_mode"
    /\ UNCHANGED <<handlers, pre, input_t, fwd_inputs, trace_inputs, traced_model,
                   error, grad_enabled, next_handler_id, calls, lookup,
                   invocations, param_vars, ste_vars>>

\* input_t is replaced by an empty float tensor of the same shape
placeholder_input(inp) == [type |-> "Tensor", shape |-> inp.shape, dtype |-> "float"]

\* export mode is switched on, on every module exposing it
jit_trace_enable_export_mode(tree) == apply(tree, LAMBDA m : _set_export_mode(m, TRUE))

\* a jit_trace that forgets to switch export mode off
jit_trace_keep_export_mode(tree) == tree

\* export mode is switched off again after the trace
jit_trace_disable_export_mode(tree) == apply(tree, LAMBDA m : _set_export_mode(m, FALSE))

JitTraceSetExportMode ==
    /\ pc = "set_export_mode"
    /\ input_t' = Attr(placeholder_input(getattr(input_t)))
    /\ modules' = jit_trace_enable_export_mode(modules)
    /\ pc' = "trace"
    /\ UNCHANGED <<handlers, pre, fwd_inputs, trace_inputs, traced_model,
                   error, grad_enabled, next_handler_id, calls, lookup,
                   invocations, param_vars, ste_vars>>

\* jit_trace_patched(module, input_t) returns the traced model
TraceReturns ==
    /\ pc = "trace"
    /\ trace_inputs' = Append(trace_inputs, getattr(input_t))
    /\ traced_model' = Attr("traced")
    /\ pc' = "unset_export_mode"
    /\ UNCHANGED <<modules, handlers, pre, input_t, fwd_inputs,
                   error, grad_enabled, next_handler_id, calls, lookup,
                   invocations, param_vars, ste_vars>>

\* a jit_trace that switches export mode off in a finally clause
TraceRaisesAndResets ==
    /\ pc = "trace"
    /\ trace_inputs' = Append(trace_inputs, getattr(input_t))
    /\ modules' = apply(modules, LAMBDA m : _set_export_mode(m, FALSE))
    /\ error' = [type |-> "Exception", where |-> "jit_trace_patched", args |-> <<>>]
    /\ pc' = "raised"
    /\ grad_enabled' = TRUE
    /\ UNCHANGED <<handlers, pre, input_t, fwd_inputs, traced_model,
                   next_handler_id, calls, lookup,
                   invocations, param_vars, ste_vars>>

\* jit_trace_patched(module, input_t) raises and jit_trace is left at once
TraceRaises ==
    /\ pc = "trace"
    /\ trace_inputs' = Append(trace_inputs, getattr(input_t))
    /\ error' = [type |-> "Exception", where |-> "jit_trace_patched", args |-> <<>>]
    /\ pc' = "raised"
    /\ grad_enabled' = TRUE
    /\ UNCHANGED <<modules, handlers, pre, input_t, fwd_inputs, traced_model,
                   next_handler_id, calls, lookup,
                   invocations, param_vars, ste_vars>>

\* export mode is switched off and the traced model is returned
JitTraceReturn ==
    /\ pc = "unset_export_mode"
    /\ modules' = jit_trace_disable_export_mode(modules)
    /\ pc' = "returned"
    /\ grad_enabled' = TRUE
    /\ UNCHANGED <<handlers, pre, input_t, fwd_inputs, trace_inputs, traced_model,
                   error, next_handler_id, calls, lookup,
                   invocations, param_vars, ste_vars>>

\* a caller asks handler_from_module about a module of class cls
HandlerFromModule ==
    /\ \E cls \in Classes :
         lookup' = Attr([cls |-> cls, handler |-> handler_from_module(handlers, cls)])
    /\ UNCHANGED <<modules, handlers, pc, pre, input_t, fwd_inputs, trace_inputs,
                   traced_model, error, grad_enabled, next_handler_id, calls,
                   invocations, param_vars, ste_vars>>


-----------------------------------------------------------------------------
(* cache_inp_out invoked twice on one tree, the two invocations interleaved    *)
(* statement by statement                                                      *)

\* statement s of cache_inp_out (base.py lines 95-104) applied to the tree
cache_inp_out_statement(tree, s) ==
    CASE s = 1 -> apply(tree, LAMBDA m : _override_quant_metadata_caching_mode(m, TRUE))
      [] s = 2 -> apply(tree, LAMBDA m : _override_bias_caching_mode(m, TRUE))
      [] s = 3 -> apply(tree, LAMBDA m : _override_inp_caching_mode(m, TRUE))
      [] s = 4 -> apply(tree, LAMBDA m : _override_out_caching_mode(m, TRUE))
      [] s = 5 -> tree
      [] s = 6 -> apply(tree, _restore_quant_metadata_caching_mode)
      [] s = 7 -> apply(tree, _restore_bias_caching_mode)
      [] s = 8 -> apply(tree, _restore_inp_caching_mode)
      [] OTHER -> apply(tree, _restore_out_caching_mode)

\* every caching flag a module of the tree exposes is true
AllForced(tree) ==
    \A i \in DOMAIN tree :
        /\ hasattr(tree[i].cache_quant_io_metadata_only)
              => tree[i].cache_quant_io_metadata_only = Attr(TRUE)
        /\ hasattr(tree[i].cache_inference_quant_bias)
              => tree[i].cache_inference_quant_bias = Attr(TRUE)
        /\ hasattr(tree[i].cache_inference_quant_inp)
              => tree[i].cache_inference_quant_inp = Attr(TRUE)
        /\ hasattr(tree[i].cache_inference_quant_out)
              => tree[i].cache_inference_quant_out = Attr(TRUE)

\* invocation k executes its next override pass
ReentrantOverridePass(k) ==
    LET me == invocations[k]
        other == invocations[3 - k]
        s == me.pos + 1
    IN  /\ s \in 1..4
        /\ modules' = cache_inp_out_statement(modules, s)
        /\ invocations' = [invocations EXCEPT ![k] =
               [me EXCEPT !.pos = s,
                          !.nested = Attr(/\ other.pos \in {4, 5}
                                          /\ (s = 1 \/ getattr(me.nested)))]]
        /\ UNCHANGED <<handlers, pc, pre, input_t, fwd_inputs, trace_inputs, traced_model,
                       error, grad_enabled, next_handler_id, calls, lookup,
                       param_vars, ste_vars>>

\* invocation k runs its forward pass, with the flags as they are then
ReentrantForward(k) ==
    LET me == invocations[k]
    IN  /\ me.pos = 4
        /\ invocations' = [invocations EXCEPT ![k] =
               [me EXCEPT !.pos = 5, !.forced = Attr(AllForced(modules))]]
        /\ UNCHANGED <<modules, handlers, pc, pre, input_t, fwd_inputs, trace_inputs,
                       traced_model, error, grad_enabled, next_handler_id, calls, lookup,
                       param_vars, ste_vars>>

\* invocation k executes its next restore pass
ReentrantRestorePass(k) ==
    LET me == invocations[k]
        s == me.pos + 1
    IN  /\ s \in 6..9
        /\ modules' = cache_inp_out_statement(modules, s)
        /\ invocations' = [invocations EXCEPT ![k] = [me EXCEPT !.pos = s]]
        /\ UNCHANGED <<handlers, pc, pre, input_t, fwd_inputs, trace_inputs, traced_model,
                       error, grad_enabled, next_handler_id, calls, lookup,
                       param_vars, ste_vars>>

-----------------------------------------------------------------------------
(* The override and restore functions applied to one module in any order      *)

\* _override_<flag>_caching_mode(m, enabled) for the flag named f
override_caching_mode(m, f, enabled) ==
    CASE f = "cache_quant_io_metadata_only" -> _override_quant_metadata_caching_mode(m, enabled)
      [] f = "cache_inference_quant_bias" -> _override_bias_caching_mode(m, enabled)
      [] f = "cache_inference_quant_inp" -> _override_inp_caching_mode(m, enabled)
      [] OTHER -> _override_out_caching_mode(m, enabled)

\* _restore_<flag>_caching_mode(m) for the flag named f
restore_caching_mode(m, f) ==
    CASE f = "cache_quant_io_metadata_only" -> _restore_quant_metadata_caching_mode(m)
      [] f = "cache_inference_quant_bias" -> _restore_bias_caching_mode(m)
      [] f = "cache_inference_quant_inp" -> _restore_inp_caching_mode(m)
      [] OTHER -> _restore_out_caching_mode(m)

\* the names of the four caching flags
FlagNames ==
    {"cache_quant_io_metadata_only", "cache_inference_quant_bias",
     "cache_inference_quant_inp", "cache_inference_quant_out"}

\* the trees the single steps are applied to: one module of any kind
GuardTrees == {<<m>> : m \in ModuleKinds}

\* one override function is called on one module
OverrideStep ==
    /\ \E i \in DOMAIN modules, f \in FlagNames, enabled \in BOOLEAN :
         modules' = [modules EXCEPT ![i] = override_caching_mode(modules[i], f, enabled)]
    /\ UNCHANGED <<handlers, pc, pre, input_t, fwd_inputs, trace_inputs, traced_model,
                   error, grad_enabled, next_handler_id, calls, lookup, invocations,
                   param_vars, ste_vars>>

\* one restore function is called on one module
RestoreStep ==
    /\ \E i \in DOMAIN modules, f \in FlagNames :
         modules' = [modules EXCEPT ![i] = restore_caching_mode(modules[i], f)]
    /\ UNCHANGED <<handlers, pc, pre, input_t, fwd_inputs, trace_inputs, traced_model,
                   error, grad_enabled, next_handler_id, calls, lookup, invocations,
                   param_vars, ste_vars>>
-----------------------------------------------------------------------------
(* Numbers: the floats of parameter.py as exact fractions <<numerator,         *)
(* denominator>> in lowest terms with a positive denominator.  The rounding of *)
(* float32 is not modelled.                                                    *)

RECURSIVE GCD(_, _)
GCD(a, b) == IF b = 0 THEN a ELSE GCD(b, a % b)

IAbs(n) == IF n < 0 THEN -n ELSE n

\* n/d in lowest terms (d # 0)
Frac(n, d) ==
    LET g == GCD(IAbs(n), IAbs(d))
        sgn == IF d < 0 THEN -1 ELSE 1
    IN  <<sgn * (n \div g), sgn * (d \div g)>>

\* Python's float(n) for an int n
float(n) == <<n, 1>>
FAdd(a, b) == Frac(a[1] * b[2] + b[1] * a[2], a[2] * b[2])
FSub(a, b) == Frac(a[1] * b[2] - b[1] * a[2], a[2] * b[2])
FLess(a, b) == a[1] * b[2] < b[1] * a[2]
FLeq(a, b) == a[1] * b[2] <= b[1] * a[2]
\* Python's max(a, b): b only when it is greater
FMax(a, b) == IF FLess(a, b) THEN b ELSE a
\* torch.abs
FAbs(a) == <<IAbs(a[1]), a[2]>>
FIsZero(a) == a[1] = 0
\* 1 / a, for a # 0
FInv(a) == Frac(a[2], a[1])

-----------------------------------------------------------------------------
(* brevitas/core/bit_width/parameter.py *)

MIN_INT_BIT_WIDTH == 2
NON_ZERO_EPSILON == Frac(1, 1000000)
REMOVE_ZERO_BIT_WIDTH == Frac(1, 10)

\* largest bit_width a constructor is called with
MaxBitWidth == 4
\* largest bit_width_to_remove a constructor is called with
MaxRemove == 2
\* largest min_overall_bit_width a constructor is called with
MaxMinBitWidth == 3
\* largest magnitude, in halves, of a value the optimizer writes
MaxLearned == 2

\* the identity restriction: restrict_init_float and forward return their argument
RestrictImpls == {"identity"}
restrict_init_float(impl, x) == x
restrict(impl, x) == x

\* an nn.Module after super().__init__(): none of the attributes assigned yet
NewModule(cls) ==
    [ class |-> cls,
      bit_width_offset |-> Absent,
      bit_width_base |-> Absent,
      restrict_bit_width_impl |-> Absent,
      bit_width_coeff |-> Absent,
      non_zero_epsilon |-> Absent,
      override_pretrained |-> Absent ]

\* no object yet
NoObject == NewModule("none")

\* the arguments the constructors are called with; None is the missing value
BitWidthArgs == 0..MaxBitWidth
MinOverallArgs == {Absent} \cup {Attr(n) : n \in 1..MaxMinBitWidth}
RemoveArgs == (-1)..MaxRemove
EpsilonArgs == {NON_ZERO_EPSILON, Frac(1, 100)}
RemoveZeroArgs == {REMOVE_ZERO_BIT_WIDTH, float(0)}
\* the values gradient steps leave in the learned parameter
LearnedValues == {Frac(n, 2) : n \in (-MaxLearned)..MaxLearned}
\* the prefix the object is saved and loaded under
Prefixes == {"quant."}

\* prefix + name, the key of a parameter in a state dict
Key(prefix, name) == <<prefix, name>>

\* a constructor that validates bit_width only
BitWidthParameter_init_unchecked_min(bit_width, restrict_bit_width_impl, min_overall_bit_width_arg, override_pretrained_bit_width) ==
    LET self == NewModule("BitWidthParameter")
        min_overall_bit_width ==
            IF ~hasattr(min_overall_bit_width_arg) THEN MIN_INT_BIT_WIDTH
            ELSE getattr(min_overall_bit_width_arg)
    IN  IF bit_width < MIN_INT_BIT_WIDTH
        THEN [self |-> self,
              error |-> [type |-> "RuntimeError", where |-> "BitWidthParameter.__init__",
                         args |-> <<MIN_INT_BIT_WIDTH, bit_width>>]]
        ELSE LET bit_width_base == float(min_overall_bit_width)
                 bit_width_offset_init ==
                     FMax(FSub(float(bit_width), bit_width_base), float(0))
             IN  [self |-> [self EXCEPT
                               !.bit_width_offset = Attr(bit_width_offset_init),
                               !.bit_width_base = Attr(bit_width_base),
                               !.override_pretrained = Attr(override_pretrained_bit_width),
                               !.restrict_bit_width_impl = Attr(restrict_bit_width_impl)],
                  error |-> NoError]

\* the initial offset without its lower bound of zero
bit_width_offset_init_unbounded(bit_width, bit_width_base) == FSub(bit_width, bit_width_base)

\* the initial offset: max(bit_width - bit_width_base, 0.0)
bit_width_offset_init(bit_width, bit_width_base) ==
    FMax(FSub(bit_width, bit_width_base), float(0))

\* BitWidthParameter.__init__: the object and the exception raised (if any)
BitWidthParameter_init(bit_width, restrict_bit_width_impl, min_overall_bit_width_arg, override_pretrained_bit_width) ==
    LET self == NewModule("BitWidthParameter")
        min_overall_bit_width ==
            IF ~hasattr(min_overall_bit_width_arg) THEN MIN_INT_BIT_WIDTH
            ELSE getattr(min_overall_bit_width_arg)
    IN  IF bit_width < MIN_INT_BIT_WIDTH \/ min_overall_bit_width < MIN_INT_BIT_WIDTH
        THEN [self |-> self,
              error |-> [type |-> "RuntimeError", where |-> "BitWidthParameter.__init__",
                         args |-> <<MIN_INT_BIT_WIDTH, bit_width>>]]
        ELSE LET bit_width_base ==
                     restrict_init_float(restrict_bit_width_impl, float(min_overall_bit_width))
                 bit_width_r ==
                     restrict_init_float(restrict_bit_width_impl, float(bit_width))
             IN  [self |-> [self EXCEPT
                               !.bit_width_offset =
                                   Attr(bit_width_offset_init(bit_width_r, bit_width_base)),
                               !.bit_width_base = Attr(bit_width_base),
                               !.override_pretrained = Attr(override_pretrained_bit_width),
                               !.restrict_bit_width_impl = Attr(restrict_bit_width_impl)],
                  error |-> NoError]

\* a forward that adds the offset with its sign
BitWidthParameter_forward_signed(self) ==
    FAdd(getattr(self.bit_width_offset), getattr(self.bit_width_base))

\* BitWidthParameter.forward
BitWidthParameter_forward(self) ==
    LET bit_width == FAdd(FAbs(getattr(self.bit_width_offset)), getattr(self.bit_width_base))
    IN  restrict(getattr(self.restrict_bit_width_impl), bit_width)

\* a constructor that rejects zero along with the negative values
RemoveBitwidthParameter_init_no_zero(bit_width_to_remove, override_pretrained_bit_width, non_zero_epsilon, remove_zero_bit_width) ==
    IF bit_width_to_remove <= 0
    THEN [self |-> NewModule("RemoveBitwidthParameter"),
          error |-> [type |-> "RuntimeError",
                     where |-> "RemoveBitwidthParameter.__init__", args |-> <<>>]]
    ELSE [self |-> [NewModule("RemoveBitwidthParameter") EXCEPT
                       !.bit_width_coeff = Attr(FInv(float(bit_width_to_remove))),
                       !.non_zero_epsilon = Attr(non_zero_epsilon),
                       !.override_pretrained = Attr(override_pretrained_bit_width)],
          error |-> NoError]

\* RemoveBitwidthParameter.__init__: the object and the exception raised (if any)
RemoveBitwidthParameter_init(bit_width_to_remove, override_pretrained_bit_width, non_zero_epsilon, remove_zero_bit_width) ==
    LET self == NewModule("RemoveBitwidthParameter")
        done(bit_width_coeff_init) ==
            [self |-> [self EXCEPT
                          !.bit_width_coeff = Attr(bit_width_coeff_init),
                          !.non_zero_epsilon = Attr(non_zero_epsilon),
                          !.override_pretrained = Attr(override_pretrained_bit_width)],
             error |-> NoError]
    IN  IF bit_width_to_remove < 0
        THEN [self |-> self,
              error |-> [type |-> "RuntimeError",
                         where |-> "RemoveBitwidthParameter.__init__", args |-> <<>>]]
        ELSE IF bit_width_to_remove = 0
        THEN IF FIsZero(remove_zero_bit_width)
             THEN [self |-> self,
                   error |-> [type |-> "ZeroDivisionError",
                              where |-> "RemoveBitwidthParameter.__init__", args |-> <<>>]]
             ELSE done(FInv(remove_zero_bit_width))
        ELSE done(FInv(float(bit_width_to_remove)))

\* RemoveBitwidthParameter.forward: 1.0 / (non_zero_epsilon + |coeff|); in torch a
\* zero denominator gives inf, which is reported here as a missing value
RemoveBitwidthParameter_forward(self) ==
    LET den == FAdd(getattr(self.non_zero_epsilon), FAbs(getattr(self.bit_width_coeff)))
    IN  IF FIsZero(den) THEN Absent ELSE Attr(FInv(den))

\* the name of the object's one learned parameter
ParameterName(self) ==
    IF self.class = "BitWidthParameter" THEN "bit_width_offset" ELSE "bit_width_coeff"

\* the value of the learned parameter
ParameterValue(self) ==
    IF self.class = "BitWidthParameter" THEN getattr(self.bit_width_offset)
    ELSE getattr(self.bit_width_coeff)

\* the object with its learned parameter set to v (copy_ / an optimizer step)
WithParameter(self, v) ==
    IF self.class = "BitWidthParameter" THEN [self EXCEPT !.bit_width_offset = Attr(v)]
    ELSE [self EXCEPT !.bit_width_coeff = Attr(v)]

\* forward() of either class, as a value that may be missing (inf)
forward(self) ==
    IF self.class = "BitWidthParameter" THEN Attr(BitWidthParameter_forward(self))
    ELSE RemoveBitwidthParameter_forward(self)

\* Module.state_dict(prefix=prefix): the learned parameter under prefix + name
ModuleStateDict(self, prefix) ==
    [k \in {Key(prefix, ParameterName(self))} |-> ParameterValue(self)]

\* del d[key]
DictDel(d, key) == [k \in DOMAIN d \ {key} |-> d[k]]

\* list.remove(x): the first occurrence goes
RECURSIVE ListRemove(_, _)
ListRemove(l, x) ==
    IF l = <<>> THEN l
    ELSE IF Head(l) = x THEN Tail(l)
    ELSE <<Head(l)>> \o ListRemove(Tail(l), x)

InList(l, x) == \E i \in 1..Len(l) : l[i] = x

\* the keys of d under prefix that name nothing of the module, in a fixed order
RECURSIVE SetToSeq(_)
SetToSeq(S) ==
    IF S = {} THEN <<>>
    ELSE LET x == CHOOSE y \in S : TRUE IN <<x>> \o SetToSeq(S \ {x})

\* torch's Module._load_from_state_dict, which the hooks call through super():
\* the parameter is copied from prefix + name when that key is present; when it
\* is not and strict is set the key is appended to missing_keys; with strict the
\* keys under the prefix that name no parameter go to unexpected_keys
Module_load_from_state_dict(self, sd, prefix, strict, missing_keys, unexpected_keys) ==
    LET key == Key(prefix, ParameterName(self))
        present == key \in DOMAIN sd
        unknown == {k \in DOMAIN sd : k[1] = prefix /\ k[2] # ParameterName(self)}
    IN  [ self |-> IF present THEN WithParameter(self, sd[key]) ELSE self,
          state_dict |-> sd,
          missing_keys |-> IF ~present /\ strict THEN Append(missing_keys, key)
                           ELSE missing_keys,
          unexpected_keys |-> IF strict THEN unexpected_keys \o SetToSeq(unknown)
                              ELSE unexpected_keys ]

\* a hook that takes the key off missing_keys whatever the configuration says
load_hook_always_ignores(self, sd, prefix, strict, missing_keys, unexpected_keys, ignore) ==
    LET key == Key(prefix, ParameterName(self))
        sd1 == IF getattr(self.override_pretrained) /\ key \in DOMAIN sd
               THEN DictDel(sd, key) ELSE sd
        r == Module_load_from_state_dict(self, sd1, prefix, strict,
                                         missing_keys, unexpected_keys)
    IN  IF InList(r.missing_keys, key)
        THEN [r EXCEPT !.missing_keys = ListRemove(r.missing_keys, key)]
        ELSE r

\* a hook that never drops the saved value
load_hook_keeps_key(self, sd, prefix, strict, missing_keys, unexpected_keys, ignore) ==
    Module_load_from_state_dict(self, sd, prefix, strict, missing_keys, unexpected_keys)

\* BitWidthParameter._load_from_state_dict and
\* RemoveBitwidthParameter._load_from_state_dict (the same code but for the key)
_load_from_state_dict(self, sd, prefix, strict, missing_keys, unexpected_keys, ignore) ==
    LET key == Key(prefix, ParameterName(self))
        sd1 == IF getattr(self.override_pretrained) /\ key \in DOMAIN sd
               THEN DictDel(sd, key) ELSE sd
        r == Module_load_from_state_dict(self, sd1, prefix, strict,
                                         missing_keys, unexpected_keys)
    IN  IF ignore /\ InList(r.missing_keys, key)
        THEN [r EXCEPT !.missing_keys = ListRemove(r.missing_keys, key)]
        ELSE r

-----------------------------------------------------------------------------
(* The life of a bit-width parameter object: construction, gradient steps and  *)
(* forward passes                                                              *)

EmptyDict == [k \in {} |-> float(0)]

\* the constructor of the object returned without raising
Live(self) == hasattr(self.override_pretrained)

\* the missing_keys list a load is entered with: it already holds the key of
\* another module's parameter
MissingKeysArgs == {<<Key("", "weight")>>}

ParamIdle ==
    /\ ctor_call = Absent
    /\ param = NoObject
    /\ fresh = FALSE
    /\ param_error = NoError
    /\ output = Absent
    /\ saver = NoObject
    /\ state_dict = EmptyDict
    /\ load = Absent

ConstructBitWidthParameter ==
    /\ \E bit_width \in BitWidthArgs, impl \in RestrictImpls,
          min_overall_bit_width \in MinOverallArgs, override \in BOOLEAN :
         LET r == BitWidthParameter_init(bit_width, impl, min_overall_bit_width, override)
         IN  /\ ctor_call' = Attr([ class |-> "BitWidthParameter",
                                    bit_width |-> bit_width,
                                    min_overall_bit_width |-> min_overall_bit_width,
                                    override_pretrained_bit_width |-> override ])
             /\ param' = r.self
             /\ fresh' = (r.error.type = "none")
             /\ param_error' = r.error
    /\ output' = Absent
    /\ UNCHANGED <<IGNORE_MISSING_KEYS, saver, state_dict, load, export_vars, ste_vars>>

ConstructRemoveBitwidthParameter ==
    /\ \E bit_width_to_remove \in RemoveArgs, override \in BOOLEAN,
          non_zero_epsilon \in EpsilonArgs, remove_zero_bit_width \in RemoveZeroArgs :
         LET r == RemoveBitwidthParameter_init(bit_width_to_remove, override,
                                               non_zero_epsilon, remove_zero_bit_width)
         IN  /\ ctor_call' = Attr([ class |-> "RemoveBitwidthParameter",
                                    bit_width_to_remove |-> bit_width_to_remove,
                                    override_pretrained_bit_width |-> override,
                                    non_zero_epsilon |-> non_zero_epsilon,
                                    remove_zero_bit_width |-> remove_zero_bit_width ])
             /\ param' = r.self
             /\ fresh' = (r.error.type = "none")
             /\ param_error' = r.error
    /\ output' = Absent
    /\ UNCHANGED <<IGNORE_MISSING_KEYS, saver, state_dict, load, export_vars, ste_vars>>

\* a gradient step writes a new value into the learned parameter
OptimizerStep ==
    /\ Live(param)
    /\ \E v \in LearnedValues : param' = WithParameter(param, v)
    /\ fresh' = FALSE
    /\ output' = Absent
    /\ UNCHANGED <<IGNORE_MISSING_KEYS, ctor_call, param_error, saver, state_dict, load,
                   export_vars, ste_vars>>

\* forward() is called on the object
Forward ==
    /\ Live(param)
    /\ output' = forward(param)
    /\ UNCHANGED <<IGNORE_MISSING_KEYS, ctor_call, param, fresh, param_error, saver, state_dict,
                   load, export_vars, ste_vars>>

-----------------------------------------------------------------------------
(* Saving the state of one object (the saver) and loading it into another      *)

\* the objects the constructors return
FreshObjects ==
    { BitWidthParameter_init(b, i, m, o).self :
          b \in MIN_INT_BIT_WIDTH..MaxBitWidth, i \in RestrictImpls,
          m \in {x \in MinOverallArgs : ~hasattr(x) \/ getattr(x) >= MIN_INT_BIT_WIDTH},
          o \in BOOLEAN }
    \cup
    { RemoveBitwidthParameter_init(n, o, e, z).self :
          n \in 1..MaxRemove, o \in BOOLEAN, e \in EpsilonArgs, z \in RemoveZeroArgs }
    \cup
    { RemoveBitwidthParameter_init(0, o, e, z).self :
          o \in BOOLEAN, e \in EpsilonArgs, z \in {x \in RemoveZeroArgs : ~FIsZero(x)} }

\* the objects gradient steps can make of them
TrainedObjects == {WithParameter(self, v) : self \in FreshObjects, v \in LearnedValues}

\* the saved state is taken from the saver
Save ==
    /\ \E prefix \in Prefixes : state_dict' = ModuleStateDict(saver, prefix)
    /\ load' = Absent
    /\ output' = Absent
    /\ UNCHANGED <<IGNORE_MISSING_KEYS, ctor_call, param, fresh, param_error, saver,
                   export_vars, ste_vars>>

\* the saved state is loaded into the object: _load_from_state_dict is called
\* with the dict, which it may change, and the lists it reports into
Load ==
    /\ \E prefix \in Prefixes, strict \in BOOLEAN, missing_keys \in MissingKeysArgs :
         LET r == _load_from_state_dict(param, state_dict, prefix, strict,
                                        missing_keys, <<>>, IGNORE_MISSING_KEYS)
         IN  /\ param' = r.self
             /\ state_dict' = r.state_dict
             /\ load' = Attr([ self |-> param, fresh |-> fresh, state_dict |-> state_dict,
                               prefix |-> prefix, strict |-> strict,
                               missing_keys_before |-> missing_keys,
                               missing_keys |-> r.missing_keys,
                               unexpected_keys |-> r.unexpected_keys ])
    /\ fresh' = FALSE
    /\ output' = Absent
    /\ UNCHANGED <<IGNORE_MISSING_KEYS, ctor_call, param_error, saver, export_vars, ste_vars>>

-----------------------------------------------------------------------------
(* brevitas/function/ops_ste.py: the straight-through tensor clamp *)

\* longest tensor the clamp is called with
MaxLen == 2

\* the elements of the tensors and of the incoming gradients
Elements == {-1, 0, 1}
GradElements == {1, 2}

\* the flat tensors of n elements
Tensors(n) == [1..n -> Elements]
Grads(n) == [1..n -> GradElements]

\* the backend the module binds to fn_prefix at import
fn_prefix(native_loaded) ==
    IF native_loaded THEN "torch.ops.autograd_ste_ops"
    ELSE "brevitas.function.autograd_ste_ops"

\* the clamp of one element into [lo, hi]
clamp(v, lo, hi) ==
    LET capped == IF v > hi THEN hi ELSE v
    IN  IF capped < lo THEN lo ELSE capped

\* tensor_clamp_ste_impl of the native backend: the clamped tensor, with the
\* straight-through backward rule attached
native_tensor_clamp_ste_impl(x, min_val, max_val) ==
    [ value |-> [i \in DOMAIN x |-> clamp(x[i], min_val[i], max_val[i])],
      grad_fn |-> "straight_through" ]

\* tensor_clamp_ste_impl of the Python fallback: the same contract
autograd_tensor_clamp_ste_impl(x, min_val, max_val) ==
    [ value |-> [i \in DOMAIN x |-> clamp(x[i], min_val[i], max_val[i])],
      grad_fn |-> "straight_through" ]

\* an ordinary differentiable clamp, whose gradient is zero where it clamped
plain_tensor_clamp(x, min_val, max_val) ==
    [ value |-> [i \in DOMAIN x |-> clamp(x[i], min_val[i], max_val[i])],
      grad_fn |-> "clamp_backward" ]

\* the backward rule a tensor carries, applied to the incoming gradient
backward(grad_fn, grad_output, x, min_val, max_val) ==
    IF grad_fn = "straight_through" THEN grad_output
    ELSE [i \in DOMAIN grad_output |->
             IF x[i] < min_val[i] \/ x[i] > max_val[i] THEN 0 ELSE grad_output[i]]

\* a tensor_clamp_ste built on the ordinary clamp
tensor_clamp_ste_plain(native_loaded, x, min_val, max_val) ==
    plain_tensor_clamp(x, min_val, max_val)

\* tensor_clamp_ste: fn_prefix.tensor_clamp_ste_impl(x, min_val, max_val)
tensor_clamp_ste(native_loaded, x, min_val, max_val) ==
    IF fn_prefix(native_loaded) = "torch.ops.autograd_ste_ops"
    THEN native_tensor_clamp_ste_impl(x, min_val, max_val)
    ELSE autograd_tensor_clamp_ste_impl(x, min_val, max_val)

\* the calls made of tensor_clamp_ste: three tensors of one shape
SteCalls ==
    UNION { { [x |-> x, min_val |-> min_val, max_val |-> max_val] :
                x \in Tensors(n), min_val \in Tensors(n), max_val \in Tensors(n) } :
            n \in 1..MaxLen }

\* tensor_clamp_ste is evaluated on the arguments of the call
TensorClampSte ==
    /\ hasattr(ste_call)
    /\ ~hasattr(ste_output)
    /\ LET c == getattr(ste_call)
       IN  ste_output' = Attr(tensor_clamp_ste(NATIVE_STE_BACKEND_LOADED,
                                               c.x, c.min_val, c.max_val))
    /\ UNCHANGED <<NATIVE_STE_BACKEND_LOADED, ste_call, ste_grad, export_vars, param_vars>>

\* a gradient arrives at the output and is propagated back to x
Backward ==
    /\ hasattr(ste_output)
    /\ \E grad_output \in Grads(Len(getattr(ste_output).value)) :
         LET c == getattr(ste_call)
         IN  ste_grad' = Attr([ grad_output |-> grad_output,
                                grad_x |-> backward(getattr(ste_output).grad_fn,
                                                    grad_output, c.x, c.min_val, c.max_val) ])
    /\ UNCHANGED <<NATIVE_STE_BACKEND_LOADED, ste_call, ste_output, export_vars, param_vars>>

-----------------------------------------------------------------------------
(* Specifications *)

\* nothing was called with the straight-through clamp yet
SteIdle ==
    /\ ste_call = Absent
    /\ ste_output = Absent
    /\ ste_grad = Absent

\* the export manager at work on a module tree
Init ==
    /\ InitExport
    /\ IGNORE_MISSING_KEYS = FALSE
    /\ ParamIdle
    /\ NATIVE_STE_BACKEND_LOADED = FALSE
    /\ SteIdle

Next ==
    \/ JitTraceEnter
    \/ JitTraceSetExportHandler
    \/ CacheInpOutOverride
    \/ ForwardReturns
    \/ ForwardRaises
    \/ CacheInpOutRestore
    \/ JitTraceSetExportMode
    \/ TraceReturns
    \/ TraceRaises
    \/ JitTraceReturn

Spec == Init /\ [][Next]_vars

\* a model without any layer to export
NoTree == [i \in 1..NumModules |->
              Mk("Module", Absent, Absent, Absent, Absent, Absent, Absent, FALSE)]

\* handler_from_module on its own: any handlers list, a module of any class
InitLookup ==
    /\ modules = NoTree
    /\ handlers \in HandlerLists
    /\ ExportIdle
    /\ IGNORE_MISSING_KEYS = FALSE
    /\ ParamIdle
    /\ NATIVE_STE_BACKEND_LOADED = FALSE
    /\ SteIdle

NextLookup == HandlerFromModule

SpecLookup == InitLookup /\ [][NextLookup]_vars

\* a bit-width parameter object is constructed, trained and evaluated
InitParam ==
    /\ modules = NoTree
    /\ handlers = <<>>
    /\ ExportIdle
    /\ IGNORE_MISSING_KEYS = FALSE
    /\ ParamIdle
    /\ NATIVE_STE_BACKEND_LOADED = FALSE
    /\ SteIdle

NextParam ==
    \/ ConstructBitWidthParameter
    \/ ConstructRemoveBitwidthParameter
    \/ OptimizerStep
    \/ Forward

SpecParam == InitParam /\ [][NextParam]_vars

\* the state of one object is saved and loaded into another (or the same) one
InitLoad ==
    /\ modules = NoTree
    /\ handlers = <<>>
    /\ ExportIdle
    /\ IGNORE_MISSING_KEYS \in BOOLEAN
    /\ saver \in FreshObjects \cup TrainedObjects
    /\ param \in FreshObjects \cup TrainedObjects
    /\ fresh \in BOOLEAN
    /\ fresh => param \in FreshObjects
    /\ ctor_call = Absent
    /\ param_error = NoError
    /\ output = Absent
    /\ state_dict = EmptyDict
    /\ load = Absent
    /\ NATIVE_STE_BACKEND_LOADED = FALSE
    /\ SteIdle

NextLoad ==
    \/ Save
    \/ Load
    \/ Forward

SpecLoad == InitLoad /\ [][NextLoad]_vars

\* the straight-through clamp, under either backend
InitSte ==
    /\ modules = NoTree
    /\ handlers = <<>>
    /\ ExportIdle
    /\ IGNORE_MISSING_KEYS = FALSE
    /\ ParamIdle
    /\ NATIVE_STE_BACKEND_LOADED \in BOOLEAN
    /\ \E c \in SteCalls : ste_call = Attr(c)
    /\ ste_output = Absent
    /\ ste_grad = Absent

NextSte ==
    \/ TensorClampSte
    \/ Backward

SpecSte == InitSte /\ [][NextSte]_vars

\* two cache_inp_out invocations at work on one tree at the same time
InitReentry ==
    /\ modules \in Trees
    /\ handlers = <<>>
    /\ ExportIdle
    /\ IGNORE_MISSING_KEYS = FALSE
    /\ ParamIdle
    /\ NATIVE_STE_BACKEND_LOADED = FALSE
    /\ SteIdle

NextReentry ==
    \E k \in 1..2 :
        \/ ReentrantOverridePass(k)
        \/ ReentrantForward(k)
        \/ ReentrantRestorePass(k)

SpecReentry == InitReentry /\ [][NextReentry]_vars

\* the override and restore functions called on a module in any order
InitGuard ==
    /\ modules \in GuardTrees
    /\ handlers = <<>>
    /\ ExportIdle
    /\ IGNORE_MISSING_KEYS = FALSE
    /\ ParamIdle
    /\ NATIVE_STE_BACKEND_LOADED = FALSE
    /\ SteIdle

NextGuard ==
    \/ OverrideStep
    \/ RestoreStep

SpecGuard == InitGuard /\ [][NextGuard]_vars
-----------------------------------------------------------------------------
(* Properties of the export manager *)

CachingFlags(m) ==
    <<m.cache_quant_io_metadata_only, m.cache_inference_quant_bias,
      m.cache_inference_quant_inp, m.cache_inference_quant_out>>

Backups(m) ==
    <<m.cache_quant_io_metadata_only_backup, m.cache_inference_quant_bias_backup,
      m.cache_inference_quant_inp_backup, m.cache_inference_quant_out_backup>>

NoBackups == <<Absent, Absent, Absent, Absent>>

\* C1: every jit_trace call that returns normally, in any sequence of calls on
\* the same tree some of which may have raised, leaves each of the four caching
\* flags of every module as it was right before that call, and leaves no backup
\* attribute behind.  (The code breaks this after a call whose forward pass
\* raised: see the trace TLC gives.)
C1_FlagsAsBeforeCall ==
    pc = "returned" =>
        \A i \in DOMAIN modules :
            /\ CachingFlags(modules[i]) = CachingFlags(pre[i])
            /\ Backups(modules[i]) = NoBackups

\* some module of the tree exposes export_handler = None, requires a handler and
\* matches no entry of the handlers list
HasUnsupportedModule(tree, hs) ==
    \E i \in DOMAIN tree :
        /\ hasattr(tree[i].export_handler)
        /\ getattr(tree[i].export_handler) = NoneHandler
        /\ tree[i].requires_export_handler
        /\ \A k \in 1..Len(hs) : ~isinstance(tree[i].cls, hs[k].handled_layer)

\* C2: a call on a tree with an unsupported module that requires a handler never
\* gets past the handler-assignment pass: it raises the export-support error
\* there, no forward pass and no trace is run, nothing is returned, and no
\* caching flag, backup or export_mode flag of any module changes.
C2_MissingHandlerAborts ==
    (pc # "idle" /\ HasUnsupportedModule(pre, handlers)) =>
        /\ pc \in {"set_export_handler", "raised"}
        /\ pc = "raised" =>
              error.type = "RuntimeError" /\ error.where = "set_export_handler"
        /\ fwd_inputs = <<>>
        /\ trace_inputs = <<>>
        /\ traced_model = Absent
        /\ \A i \in DOMAIN modules :
              /\ CachingFlags(modules[i]) = CachingFlags(pre[i])
              /\ Backups(modules[i]) = Backups(pre[i])
              /\ modules[i].export_mode = pre[i].export_mode

\* a call on a tree with an unsupported module has raised, after a handler was
\* installed on a module visited before the unsupported one
C2_Witness ==
    /\ pc = "raised"
    /\ HasUnsupportedModule(pre, handlers)
    /\ error.where = "set_export_handler"
    /\ \E i \in DOMAIN modules : modules[i].export_handler # pre[i].export_handler
    /\ \E i \in DOMAIN modules : hasattr(pre[i].cache_inference_quant_inp)

\* C4 as stated: after a call that returns normally export_mode equals its
\* pre-call value on every module, whatever that value was.
C4_ExportModeAsBeforeCall ==
    pc = "returned" =>
        \A i \in DOMAIN modules : modules[i].export_mode = pre[i].export_mode

\* C4, amended: after a call that returns normally export_mode is false on every
\* module exposing it, whatever its pre-call value, and is not created on a
\* module that does not expose it; so it equals the pre-call value exactly on
\* the modules where that value was false (or the flag is missing).
C4_ExportModeOffAfterReturn ==
    pc = "returned" =>
        \A i \in DOMAIN modules :
            /\ modules[i].export_mode =
                  (IF hasattr(pre[i].export_mode) THEN Attr(FALSE) ELSE Absent)
            /\ (modules[i].export_mode = pre[i].export_mode)
                  <=> (pre[i].export_mode # Attr(TRUE))

\* a call returned on a tree where one module had export_mode true and another
\* had it false before the call
C4_Witness ==
    /\ pc = "returned"
    /\ \E i \in DOMAIN modules : pre[i].export_mode = Attr(TRUE)
    /\ \E i \in DOMAIN modules : pre[i].export_mode = Attr(FALSE)

-----------------------------------------------------------------------------
(* Properties of handler_from_module *)

\* the entries of hs a module of class cls is an instance of
Matching(hs, cls) == {k \in 1..Len(hs) : isinstance(cls, hs[k].handled_layer)}

\* C3: handler_from_module returns the first entry, in list order, that the
\* module is an instance of (a subclass of the handled layer counts), also when
\* later entries match too; it returns None exactly when no entry matches.
C3_FirstMatchWins ==
    hasattr(lookup) =>
        LET r == getattr(lookup)
            ks == Matching(handlers, r.cls)
        IN  /\ (r.handler = NoHandlerClass) <=> (ks = {})
            /\ ks # {} =>
                  \E k \in ks : /\ \A j \in ks : k <= j
                                /\ r.handler = handlers[k]

\* a lookup where two different entries match, the first of them through a
\* base class of the module's class, and the first was returned
C3_Witness ==
    /\ hasattr(lookup)
    /\ Len(handlers) = 2
    /\ Matching(handlers, getattr(lookup).cls) = {1, 2}
    /\ handlers[1] # handlers[2]
    /\ handlers[1].handled_layer # getattr(lookup).cls
    /\ getattr(lookup).handler = handlers[1]

-----------------------------------------------------------------------------
(* Properties of BitWidthParameter *)

\* the last constructor call was of class cls
Constructed(cls) == hasattr(ctor_call) /\ getattr(ctor_call).class = cls

\* min_overall_bit_width as the constructor takes it: 2 when None was passed
EffectiveMin(a) ==
    IF hasattr(a.min_overall_bit_width) THEN getattr(a.min_overall_bit_width) ELSE 2

\* C5: BitWidthParameter's constructor raises a RuntimeError exactly when
\* bit_width < 2 or the effective min_overall_bit_width (2 when None) is < 2, and
\* then no bit_width_offset parameter (nor any other attribute) is created;
\* otherwise it raises nothing and creates the parameter. bit_width = 1 fails,
\* bit_width = 2 with the default minimum succeeds.
C5_ConstructorValidates ==
    Constructed("BitWidthParameter") =>
        LET a == getattr(ctor_call)
            failed == param_error.type # "none"
        IN  /\ failed <=> (a.bit_width < 2 \/ EffectiveMin(a) < 2)
            /\ failed =>
                  /\ param_error.type = "RuntimeError"
                  /\ ~hasattr(param.bit_width_offset)
                  /\ ~hasattr(param.bit_width_base)
                  /\ ~hasattr(param.override_pretrained)
            /\ ~failed => hasattr(param.bit_width_offset)
            /\ a.bit_width = 1 => failed
            /\ (a.bit_width = 2 /\ ~hasattr(a.min_overall_bit_width)) => ~failed

\* the constructor was called with a valid bit_width but a minimum of 1 and
\* raised, leaving no parameter
C5_Witness ==
    /\ Constructed("BitWidthParameter")
    /\ getattr(ctor_call).bit_width = 3
    /\ getattr(ctor_call).min_overall_bit_width = Attr(1)
    /\ param_error.type = "RuntimeError"
    /\ ~hasattr(param.bit_width_offset)

\* C6: forward() of a BitWidthParameter returns |bit_width_offset| +
\* bit_width_base, which is never below the configured minimum overall bit
\* width, whatever value training left in the offset.
C6_ForwardAtLeastMin ==
    (Constructed("BitWidthParameter") /\ hasattr(output)) =>
        LET out == getattr(output)
            off == getattr(param.bit_width_offset)
            base == getattr(param.bit_width_base)
        IN  /\ base = <<EffectiveMin(getattr(ctor_call)), 1>>
            /\ out[1] * off[2] * base[2]
                  = (IAbs(off[1]) * base[2] + base[1] * off[2]) * out[2]
            /\ out[1] >= EffectiveMin(getattr(ctor_call)) * out[2]
            /\ out[1] >= 2 * out[2]

\* forward() ran on an object whose offset a gradient step had made negative
C6_Witness ==
    /\ Constructed("BitWidthParameter")
    /\ hasattr(output)
    /\ ~fresh
    /\ getattr(param.bit_width_offset)[1] < 0
    /\ getattr(ctor_call).min_overall_bit_width = Attr(3)

\* C7: right after construction bit_width_offset is max(bit_width - min, 0), so
\* forward() returns max(bit_width, min): bit_width itself when it is >= min
\* (4 for bit_width = 4, min = 2), and min when bit_width is below it.
C7_InitialForward ==
    (Constructed("BitWidthParameter") /\ fresh) =>
        LET a == getattr(ctor_call)
            min == EffectiveMin(a)
        IN  /\ param.bit_width_offset =
                  Attr(<<IF a.bit_width >= min THEN a.bit_width - min ELSE 0, 1>>)
            /\ hasattr(output) =>
                  /\ output = Attr(<<IF a.bit_width >= min THEN a.bit_width ELSE min, 1>>)
                  /\ a.bit_width >= min => output = Attr(<<a.bit_width, 1>>)
                  /\ (a.bit_width = 4 /\ min = 2) => output = Attr(<<4, 1>>)

\* forward() ran on a freshly built BitWidthParameter(4, min_overall_bit_width=2)
\* and returned 4
C7_Witness ==
    /\ Constructed("BitWidthParameter")
    /\ fresh
    /\ getattr(ctor_call).bit_width = 4
    /\ getattr(ctor_call).min_overall_bit_width = Attr(2)
    /\ output = Attr(<<4, 1>>)

-----------------------------------------------------------------------------
(* Properties of saving and loading *)

\* the last load was given a state dict that holds the object's parameter
LoadedSaved ==
    /\ hasattr(load)
    /\ Key(getattr(load).prefix, ParameterName(getattr(load).self))
          \in DOMAIN getattr(load).state_dict

\* the value saved under the object's key in the dict the load was given
SavedValue ==
    getattr(load).state_dict[Key(getattr(load).prefix, ParameterName(getattr(load).self))]

\* what the load does to the parameter and the dict: without override the
\* parameter takes the saved value; with override the key is removed from the
\* dict and the parameter keeps the value it had
LoadSetsOrKeeps ==
    LET l == getattr(load)
        key == Key(l.prefix, ParameterName(l.self))
    IN  IF getattr(l.self.override_pretrained)
        THEN /\ key \notin DOMAIN state_dict
             /\ ParameterValue(param) = ParameterValue(l.self)
             /\ hasattr(output) => output = forward(l.self)
        ELSE /\ key \in DOMAIN state_dict
             /\ ParameterValue(param) = SavedValue

\* the attributes forward() reads besides the learned parameter, none of which
\* is saved
SameConfiguration(a, b) ==
    /\ a.class = b.class
    /\ a.bit_width_base = b.bit_width_base
    /\ a.restrict_bit_width_impl = b.restrict_bit_width_impl
    /\ a.non_zero_epsilon = b.non_zero_epsilon

\* C8 as stated: loading a saved state dict without override sets the parameter
\* to the saved value, so forward() equals forward() of the saved instance; with
\* override the saved value is removed from the dict before the load and the
\* parameter keeps its value, so forward() is that of the object before the load.
C8_LoadRoundTrip ==
    LoadedSaved =>
        /\ LoadSetsOrKeeps
        /\ (~getattr(getattr(load).self.override_pretrained) /\ hasattr(output))
              => output = forward(saver)

\* C8, amended: as stated, but without override forward() equals forward() of
\* the saved instance when the loading instance was constructed with the same
\* minimum overall bit width and restriction (BitWidthParameter) or the same
\* non_zero_epsilon (RemoveBitwidthParameter) as the saved one: these are not
\* part of the state dict.
C8_LoadRoundTripSameConfiguration ==
    LoadedSaved =>
        /\ LoadSetsOrKeeps
        /\ (~getattr(getattr(load).self.override_pretrained) /\ hasattr(output)
               /\ SameConfiguration(param, saver))
              => output = forward(saver)

\* a load without override replaced the parameter's value by a different saved
\* one, into an object configured as the saver, and forward() ran
C8_Witness ==
    /\ LoadedSaved
    /\ ~getattr(getattr(load).self.override_pretrained)
    /\ SameConfiguration(param, saver)
    /\ ParameterValue(getattr(load).self) # SavedValue
    /\ hasattr(output)

\* a load with override met a different saved value, and forward() ran
C8_WitnessOverride ==
    /\ LoadedSaved
    /\ getattr(getattr(load).self.override_pretrained)
    /\ getattr(load).fresh
    /\ ParameterValue(getattr(load).self) # SavedValue
    /\ hasattr(output)

-----------------------------------------------------------------------------
(* Properties of RemoveBitwidthParameter *)

\* what the constructor does for each sign of bit_width_to_remove, division by
\* remove_zero_bit_width aside: a negative value raises RuntimeError and creates
\* no coefficient; 0 gives the coefficient 1/remove_zero_bit_width, so the first
\* forward() is 1/(epsilon + 1/remove_zero_bit_width), which is
\* 1/(1e-6 + 1/0.1) = 1000000/10000001 with the defaults; a positive value n
\* gives 1/n
RemoveBySign ==
    LET a == getattr(ctor_call)
        n == a.bit_width_to_remove
        rz == a.remove_zero_bit_width
    IN  /\ n < 0 => /\ param_error.type = "RuntimeError"
                    /\ ~hasattr(param.bit_width_coeff)
        /\ (n = 0 /\ rz[1] # 0 /\ fresh) =>
              /\ param_error.type = "none"
              /\ getattr(param.bit_width_coeff)[1] * rz[1]
                    = getattr(param.bit_width_coeff)[2] * rz[2]
              /\ (hasattr(output) /\ rz = <<1, 10>> /\ a.non_zero_epsilon = <<1, 1000000>>)
                    => output = Attr(<<1000000, 10000001>>)
        /\ (n > 0 /\ fresh) =>
              /\ param_error.type = "none"
              /\ param.bit_width_coeff = Attr(<<1, n>>)

\* C9 as stated: the constructor never divides by zero; a negative
\* bit_width_to_remove raises RuntimeError with no coefficient, 0 initialises the
\* coefficient to 1/remove_zero_bit_width, a positive n to 1/n.
C9_NeverDividesByZero ==
    Constructed("RemoveBitwidthParameter") =>
        /\ param_error.type # "ZeroDivisionError"
        /\ RemoveBySign
        /\ (getattr(ctor_call).bit_width_to_remove = 0 /\ fresh)
              => hasattr(param.bit_width_coeff)

\* C9, amended: the constructor divides by zero exactly when bit_width_to_remove
\* is 0 and remove_zero_bit_width is 0, and then raises ZeroDivisionError and
\* creates no coefficient; for every other remove_zero_bit_width (0.1 by default)
\* it behaves as stated.
C9_DividesByZeroOnlyForZeroSentinel ==
    Constructed("RemoveBitwidthParameter") =>
        LET a == getattr(ctor_call)
        IN  /\ (param_error.type = "ZeroDivisionError")
                  <=> (a.bit_width_to_remove = 0 /\ a.remove_zero_bit_width[1] = 0)
            /\ param_error.type = "ZeroDivisionError" => ~hasattr(param.bit_width_coeff)
            /\ RemoveBySign
            /\ a.bit_width_to_remove >= 0 => param_error.type # "RuntimeError"

\* RemoveBitwidthParameter(0) was built with the defaults and forward() ran
C9_Witness ==
    /\ Constructed("RemoveBitwidthParameter")
    /\ fresh
    /\ getattr(ctor_call).bit_width_to_remove = 0
    /\ getattr(ctor_call).remove_zero_bit_width = <<1, 10>>
    /\ getattr(ctor_call).non_zero_epsilon = <<1, 1000000>>
    /\ param.bit_width_coeff = Attr(<<10, 1>>)
    /\ hasattr(output)

-----------------------------------------------------------------------------
(* Properties of tensor_clamp_ste *)

\* C10: with min_val <= max_val elementwise tensor_clamp_ste returns a tensor of
\* the shape of x whose every element lies in [min_val, max_val] (x where it is
\* inside, the bound it crossed otherwise), and its backward pass hands the
\* incoming gradient to x unchanged, also where the element was clamped.
C10_ClampedStraightThrough ==
    (hasattr(ste_output) /\ \A i \in DOMAIN getattr(ste_call).x :
                               getattr(ste_call).min_val[i] <= getattr(ste_call).max_val[i]) =>
        LET c == getattr(ste_call)
            y == getattr(ste_output).value
        IN  /\ DOMAIN y = DOMAIN c.x
            /\ \A i \in DOMAIN c.x :
                  /\ c.min_val[i] <= y[i] /\ y[i] <= c.max_val[i]
                  /\ (c.min_val[i] <= c.x[i] /\ c.x[i] <= c.max_val[i]) => y[i] = c.x[i]
                  /\ c.x[i] < c.min_val[i] => y[i] = c.min_val[i]
                  /\ c.x[i] > c.max_val[i] => y[i] = c.max_val[i]
            /\ hasattr(ste_grad) =>
                  getattr(ste_grad).grad_x = getattr(ste_grad).grad_output

\* a gradient went back through a call that clamped one element from above and
\* another from below
C10_Witness ==
    /\ hasattr(ste_grad)
    /\ LET c == getattr(ste_call)
       IN  /\ \A i \in DOMAIN c.x : c.min_val[i] <= c.max_val[i]
           /\ \E i \in DOMAIN c.x : c.x[i] > c.max_val[i]
           /\ \E i \in DOMAIN c.x : c.x[i] < c.min_val[i]
           /\ getattr(ste_grad).grad_x = getattr(ste_grad).grad_output

-----------------------------------------------------------------------------
(* Order of the steps of cache_inp_out and jit_trace *)

\* flag f of module m and its backup attribute
Flag(m, f) ==
    CASE f = "cache_quant_io_metadata_only" -> m.cache_quant_io_metadata_only
      [] f = "cache_inference_quant_bias" -> m.cache_inference_quant_bias
      [] f = "cache_inference_quant_inp" -> m.cache_inference_quant_inp
      [] OTHER -> m.cache_inference_quant_out

Backup(m, f) ==
    CASE f = "cache_quant_io_metadata_only" -> m.cache_quant_io_metadata_only_backup
      [] f = "cache_inference_quant_bias" -> m.cache_inference_quant_bias_backup
      [] f = "cache_inference_quant_inp" -> m.cache_inference_quant_inp_backup
      [] OTHER -> m.cache_inference_quant_out_backup

\* no module of the tree carries a backup attribute
NoBackupIn(tree) == \A i \in DOMAIN tree : Backups(tree[i]) = NoBackups

\* C11: in a cache_inp_out call entered on a tree without backups the order is
\* override passes, exactly one forward pass with the supplied input, restore
\* passes. So when the forward pass runs every caching flag a module exposes is
\* true and has a backup holding its prior value, flag by flag; a flag a module
\* does not expose is not created and gets no backup; and after the restore
\* passes one forward pass has run, the flags are as before and no backup is left.
C11_ForwardBetweenOverrideAndRestore ==
    NoBackupIn(pre) =>
        /\ pc \in {"set_export_handler", "cache_override"} => fwd_inputs = <<>>
        /\ pc = "forward" => fwd_inputs = <<>>
        /\ pc = "cache_restore" => fwd_inputs = <<getattr(input_t)>>
        /\ pc \in {"forward", "cache_restore"} =>
              \A i \in DOMAIN modules : \A f \in FlagNames :
                  IF hasattr(Flag(pre[i], f))
                  THEN /\ Flag(modules[i], f) = Attr(TRUE)
                       /\ Backup(modules[i], f) = Flag(pre[i], f)
                  ELSE /\ Flag(modules[i], f) = Absent
                       /\ Backup(modules[i], f) = Absent
        /\ pc \in {"set_export_mode", "trace", "unset_export_mode", "returned"} =>
              /\ Len(fwd_inputs) = 1
              /\ \A i \in DOMAIN modules :
                    /\ CachingFlags(modules[i]) = CachingFlags(pre[i])
                    /\ Backups(modules[i]) = NoBackups

\* the forward pass has just run on a tree with a module exposing only some of
\* the flags, one of them false before the call
C11_Witness ==
    /\ pc = "cache_restore"
    /\ NoBackupIn(pre)
    /\ fwd_inputs = <<getattr(input_t)>>
    /\ \E i \in DOMAIN modules :
          /\ ~hasattr(pre[i].cache_inference_quant_bias)
          /\ pre[i].cache_inference_quant_inp = Attr(FALSE)
          /\ modules[i].cache_inference_quant_inp = Attr(TRUE)
          /\ modules[i].cache_inference_quant_inp_backup = Attr(FALSE)
          /\ ~hasattr(modules[i].cache_inference_quant_bias)

\* every module that exposes export_handler and requires a handler has one
HandlersAssigned(tree) ==
    \A i \in DOMAIN tree :
        (hasattr(tree[i].export_handler) /\ tree[i].requires_export_handler)
            => getattr(tree[i].export_handler) # NoneHandler

\* C12 as stated: a jit_trace call that returns normally runs handler
\* assignment, cache priming (override, one forward, restore), export_mode on,
\* exactly one trace, export_mode off, in this order. So export_mode is not
\* touched during the priming forward pass; when the trace runs export_mode is
\* true wherever exposed and every caching flag holds its pre-call value with no
\* backup present; after the call export_mode is false wherever exposed.  (The
\* code breaks the pre-call-value part in a call that follows one whose forward
\* pass raised.)
C12_StepsInOrder ==
    /\ pc \in {"cache_override", "forward", "cache_restore", "set_export_mode"} =>
          /\ pc # "cache_override" => HandlersAssigned(modules)
          /\ trace_inputs = <<>>
          /\ \A i \in DOMAIN modules : modules[i].export_mode = pre[i].export_mode
    /\ pc = "trace" =>
          /\ HandlersAssigned(modules)
          /\ Len(fwd_inputs) = 1
          /\ trace_inputs = <<>>
          /\ \A i \in DOMAIN modules :
                /\ hasattr(modules[i].export_mode) => modules[i].export_mode = Attr(TRUE)
                /\ hasattr(modules[i].export_mode) <=> hasattr(pre[i].export_mode)
                /\ CachingFlags(modules[i]) = CachingFlags(pre[i])
                /\ Backups(modules[i]) = NoBackups
    /\ pc \in {"unset_export_mode", "returned"} =>
          /\ Len(fwd_inputs) = 1
          /\ Len(trace_inputs) = 1
    /\ pc = "returned" =>
          \A i \in DOMAIN modules :
              hasattr(modules[i].export_mode) => modules[i].export_mode = Attr(FALSE)

-----------------------------------------------------------------------------
(* Re-entrancy of cache_inp_out *)

\* invocation b ran its whole override step after the other invocation's
\* override step and before the other's restore step
RanNested(b) ==
    /\ invocations[b].pos >= 4
    /\ invocations[b].nested = Attr(TRUE)

\* both invocations have executed their last statement
BothFinished == \A k \in 1..2 : invocations[k].pos = 9

\* C13 as stated: when a second invocation's override step runs between the
\* first one's override and restore steps, the restore is corrupted: once both
\* have finished some caching flag differs from its value before the first
\* invocation, or a backup is left behind.
C13_ReentryCorruptsFlags ==
    \A b \in 1..2 :
        (RanNested(b) /\ BothFinished) =>
            \E i \in DOMAIN modules :
                \/ CachingFlags(modules[i]) # CachingFlags(pre[i])
                \/ Backups(modules[i]) # NoBackups

\* C13, amended: the second invocation sees the backups and snapshots nothing,
\* so the backups keep the original values; whichever invocation restores first
\* puts the original values back and removes the backups, the other's restore
\* does nothing, and once both have finished every flag has its original value
\* and no backup is left. What is lost is the forcing: an invocation whose
\* forward pass runs after the other began to restore may run it with caching
\* flags no longer true, and only such an invocation can.
C13_ReentryRestoresOriginalFlags ==
    /\ \A b \in 1..2 :
          RanNested(b) =>
              /\ (invocations[b].pos \in {4, 5} /\ invocations[3 - b].pos \in {4, 5}) =>
                    \A i \in DOMAIN modules : \A f \in FlagNames :
                        hasattr(Flag(pre[i], f)) =>
                            /\ Flag(modules[i], f) = Attr(TRUE)
                            /\ Backup(modules[i], f) = Flag(pre[i], f)
              /\ BothFinished =>
                    \A i \in DOMAIN modules :
                        /\ CachingFlags(modules[i]) = CachingFlags(pre[i])
                        /\ Backups(modules[i]) = NoBackups
    /\ \A k \in 1..2 :
          invocations[k].forced = Attr(FALSE) => invocations[3 - k].pos >= 6

\* both invocations have finished, the second having overridden inside the
\* first; the second restored before the first ran its forward pass, which
\* therefore ran with a caching flag that was not true; the flags are as they
\* were before the first invocation
C13_Witness ==
    \E b \in 1..2 :
        /\ RanNested(b)
        /\ BothFinished
        /\ invocations[b].forced = Attr(TRUE)
        /\ invocations[3 - b].forced = Attr(FALSE)
        /\ \A i \in DOMAIN modules :
              /\ CachingFlags(modules[i]) = CachingFlags(pre[i])
              /\ Backups(modules[i]) = NoBackups

\* C14: per module and flag there is one backup attribute at most, and an
\* override called on a module that carries the backup changes neither the
\* backup nor the flag, whatever value it is asked to force. So under any
\* sequence of per-module override and restore calls from a tree without
\* backups: a backup that exists holds the value the flag had before the first
\* override, and a flag without backup holds that original value.
C14_BackupHoldsOriginal ==
    \A i \in DOMAIN modules : \A f \in FlagNames :
        IF hasattr(Backup(modules[i], f))
        THEN /\ Len(Backup(modules[i], f)) = 1
             /\ Backup(modules[i], f) = Flag(pre[i], f)
             /\ \A enabled \in BOOLEAN :
                   override_caching_mode(modules[i], f, enabled) = modules[i]
        ELSE Flag(modules[i], f) = Flag(pre[i], f)

\* a module carries a backup holding true while its flag was forced to false,
\* and another of its flags has no backup: an override asked to force true
\* would change the first flag if the backup did not stop it
C14_Witness ==
    \E i \in DOMAIN modules : \E f, g \in FlagNames :
        /\ Backup(modules[i], f) = Attr(TRUE)
        /\ Flag(modules[i], f) = Attr(FALSE)
        /\ hasattr(Flag(modules[i], g))
        /\ ~hasattr(Backup(modules[i], g))

-----------------------------------------------------------------------------
(* Handler assignment *)

\* the handler-assignment pass of the current call has run (to its end or to
\* the error that ended it)
PassRan == pc \notin {"idle", "set_export_handler"}

\* ... and ended without the export-support error
PassCompleted == PassRan /\ error.where # "set_export_handler"

\* no entry of hs matches a module of class cls
NoMatch(hs, cls) == \A k \in 1..Len(hs) : ~isinstance(cls, hs[k].handled_layer)

\* the modules that carry a handler instance constructed by set_export_handler
WithConstructedHandler ==
    {i \in DOMAIN modules : /\ hasattr(modules[i].export_handler)
                            /\ getattr(modules[i].export_handler).id >= 1}

\* C15: set_export_handler acts only on a module exposing export_handler =
\* None. A module whose handler is set keeps that very handler (a second
\* jit_trace constructs no new one for it), a module without the attribute does
\* not get it, a module with no matching handler that requires none keeps None;
\* and after a pass that completed without error every module that exposes
\* export_handler and requires a handler has one.
C15_HandlerAssignedOnce ==
    /\ PassRan =>
          \A i \in DOMAIN modules :
              /\ ~hasattr(pre[i].export_handler) => ~hasattr(modules[i].export_handler)
              /\ (hasattr(pre[i].export_handler)
                    /\ getattr(pre[i].export_handler) # NoneHandler)
                    => modules[i].export_handler = pre[i].export_handler
              /\ (pre[i].export_handler = Attr(NoneHandler)
                    /\ NoMatch(handlers, pre[i].cls) /\ ~pre[i].requires_export_handler)
                    => modules[i].export_handler = Attr(NoneHandler)
    /\ PassCompleted => HandlersAssigned(modules)
    /\ Cardinality(WithConstructedHandler) = next_handler_id - 1
    /\ \A i, j \in WithConstructedHandler :
          getattr(modules[i].export_handler).id = getattr(modules[j].export_handler).id
              => i = j

\* a second jit_trace returned on a tree where the first had installed a handler
\* on one module and left None on a module that requires none: both are as the
\* first call left them
C15_Witness ==
    /\ calls = 2
    /\ pc = "returned"
    /\ \E i \in DOMAIN modules :
          /\ hasattr(pre[i].export_handler)
          /\ getattr(pre[i].export_handler).id >= 1
          /\ modules[i].export_handler = pre[i].export_handler
    /\ \E i \in DOMAIN modules :
          /\ pre[i].export_handler = Attr(NoneHandler)
          /\ modules[i].export_handler = Attr(NoneHandler)

-----------------------------------------------------------------------------
(* Missing keys of a state load *)

\* the key of the loaded object's parameter in the last load
LoadKey == Key(getattr(load).prefix, ParameterName(getattr(load).self))

\* the override-pretrained hook deleted the saved value in the last load
DeletedByHook ==
    /\ getattr(getattr(load).self.override_pretrained)
    /\ LoadKey \in DOMAIN getattr(load).state_dict

\* the key was not in the state dict when the base class looked for it
KeyAbsent == LoadKey \notin DOMAIN getattr(load).state_dict \/ DeletedByHook

\* C16: the hook takes the parameter's key off missing_keys if and only if
\* IGNORE_MISSING_KEYS is set. With the flag unset the list is what the base
\* class reported: a key absent from the state dict, also one the
\* override-pretrained hook deleted itself, is in missing_keys (the base class
\* reports under strict, which is how load_state_dict calls the hook). With the
\* flag set the key is not in the list. The entries for other keys stay, in
\* their order, in both cases.
C16_MissingKeyDroppedIffIgnored ==
    hasattr(load) =>
        LET l == getattr(load)
            reported == IF KeyAbsent /\ l.strict
                        THEN Append(l.missing_keys_before, LoadKey)
                        ELSE l.missing_keys_before
        IN  /\ ~InList(l.missing_keys_before, LoadKey)
            /\ IGNORE_MISSING_KEYS =>
                  /\ ~InList(l.missing_keys, LoadKey)
                  /\ l.missing_keys = l.missing_keys_before
            /\ ~IGNORE_MISSING_KEYS =>
                  /\ l.missing_keys = reported
                  /\ (KeyAbsent /\ l.strict) => InList(l.missing_keys, LoadKey)
            /\ (l.missing_keys # reported) <=> (IGNORE_MISSING_KEYS /\ KeyAbsent /\ l.strict)
            /\ \A n \in 1..Len(l.missing_keys_before) :
                  l.missing_keys[n] = l.missing_keys_before[n]

\* with the flag unset a strict load into an override-pretrained object deleted
\* the saved value and reported the key as missing, next to the other entry
C16_Witness ==
    /\ hasattr(load)
    /\ ~IGNORE_MISSING_KEYS
    /\ DeletedByHook
    /\ getattr(load).strict
    /\ getattr(load).missing_keys = Append(getattr(load).missing_keys_before, LoadKey)
    /\ Len(getattr(load).missing_keys_before) = 1

\* with the flag set the same load reported nothing for the key
C16_WitnessIgnored ==
    /\ hasattr(load)
    /\ IGNORE_MISSING_KEYS
    /\ DeletedByHook
    /\ getattr(load).strict
    /\ getattr(load).missing_keys = getattr(load).missing_keys_before

-----------------------------------------------------------------------------
(* What the error messages carry *)

\* the values formatted into the message of error e include v
Carries(e, v) == \E n \in 1..Len(e.args) : e.args[n] = v

\* C17 as stated, for the constructors: the RuntimeError of BitWidthParameter
\* reports ("instead is ...") the invalid value that triggered it, bit_width
\* when that is below 2 and else the min_overall_bit_width below 2; the
\* RuntimeError of RemoveBitwidthParameter carries the negative
\* bit_width_to_remove.  (The code does neither in general: see the traces.)
C17_ErrorNamesInvalidValue ==
    /\ (Constructed("BitWidthParameter") /\ param_error.type = "RuntimeError") =>
          LET a == getattr(ctor_call)
              invalid == IF a.bit_width < 2 THEN a.bit_width ELSE EffectiveMin(a)
          IN  /\ Len(param_error.args) = 2
              /\ param_error.args[2] = invalid
    /\ (Constructed("RemoveBitwidthParameter") /\ param_error.type = "RuntimeError") =>
          Carries(param_error, getattr(ctor_call).bit_width_to_remove)

\* C17, export part: the export-support error carries the class of the first
\* module of the traversal that requires a handler and matches none.
C17_ExportErrorNamesClass ==
    (pc = "raised" /\ error.where = "set_export_handler") =>
        \E i \in DOMAIN pre :
            /\ pre[i].export_handler = Attr(NoneHandler)
            /\ pre[i].requires_export_handler
            /\ NoMatch(handlers, pre[i].cls)
            /\ error.args = <<pre[i].cls>>

-----------------------------------------------------------------------------
(* Calls that abort *)

\* the value a restore pass gives flag f of a module that entered the call as m
RestoredValue(m, f) == IF hasattr(Backup(m, f)) THEN Backup(m, f) ELSE Flag(m, f)

\* C18: when the priming forward pass raises no restore pass runs: after the
\* aborted call every caching flag a module exposes is still true and its backup
\* is still there, holding the value from before the call. A later call on the
\* tree that gets through cache_inp_out snapshots nothing for these flags (the
\* backups stay as they were left) and its restore passes set them to the
\* backups, the values from before the aborted call, whatever the flags were
\* when the later call started.
C18_AbortedForwardLeavesOverride ==
    /\ (pc = "raised" /\ error.where = "forward") =>
          \A i \in DOMAIN modules : \A f \in FlagNames :
              IF hasattr(Flag(pre[i], f))
              THEN /\ Flag(modules[i], f) = Attr(TRUE)
                   /\ hasattr(Backup(modules[i], f))
                   /\ Backup(modules[i], f) = RestoredValue(pre[i], f)
              ELSE ~hasattr(Flag(modules[i], f)) /\ ~hasattr(Backup(modules[i], f))
    /\ pc \in {"forward", "cache_restore"} =>
          \A i \in DOMAIN modules : \A f \in FlagNames :
              hasattr(Backup(pre[i], f)) =>
                  /\ Backup(modules[i], f) = Backup(pre[i], f)
                  /\ Flag(modules[i], f) = Flag(pre[i], f)
    /\ pc \in {"set_export_mode", "trace", "unset_export_mode", "returned"} =>
          \A i \in DOMAIN modules : \A f \in FlagNames :
              hasattr(Backup(pre[i], f)) =>
                  /\ Flag(modules[i], f) = Backup(pre[i], f)
                  /\ ~hasattr(Backup(modules[i], f))

\* a call returned on a tree an aborted call had left with a flag forced to
\* true over a backup of false: the flag, true when the call started, is false
C18_Witness ==
    /\ calls = 2
    /\ pc = "returned"
    /\ \E i \in DOMAIN modules : \E f \in FlagNames :
          /\ Backup(pre[i], f) = Attr(FALSE)
          /\ Flag(pre[i], f) = Attr(TRUE)
          /\ Flag(modules[i], f) = Attr(FALSE)
          /\ ~hasattr(Backup(modules[i], f))

\* C19: when the trace entry point raises, export_mode is not switched off: it
\* is true on every module exposing it after the aborted call (and missing where
\* it was missing), nothing is returned, while every caching flag has been
\* restored and no backup is left.
C19_AbortedTraceLeavesExportMode ==
    (pc = "raised" /\ error.where = "jit_trace_patched") =>
        /\ traced_model = Absent
        /\ Len(trace_inputs) = 1
        /\ \A i \in DOMAIN modules :
              /\ hasattr(modules[i].export_mode) <=> hasattr(pre[i].export_mode)
              /\ hasattr(modules[i].export_mode) => modules[i].export_mode = Attr(TRUE)
              /\ Backups(modules[i]) = NoBackups
              /\ \A f \in FlagNames : Flag(modules[i], f) = RestoredValue(pre[i], f)

\* the trace raised in a call entered with export_mode false on a module and
\* caching flags of both values: export_mode is true now, the flags are back
C19_Witness ==
    /\ pc = "raised"
    /\ error.where = "jit_trace_patched"
    /\ \E i \in DOMAIN modules :
          /\ pre[i].export_mode = Attr(FALSE)
          /\ modules[i].export_mode = Attr(TRUE)
          /\ pre[i].cache_inference_quant_bias = Attr(FALSE)
          /\ modules[i].cache_inference_quant_bias = Attr(FALSE)

\* module i of the tree the call was entered on makes set_export_handler raise
Unsupported(i) ==
    /\ pre[i].export_handler = Attr(NoneHandler)
    /\ pre[i].requires_export_handler
    /\ NoMatch(handlers, pre[i].cls)

\* C20: a jit_trace that aborts with the export-support error rolls nothing
\* back: every module visited before the unsupported one that exposed
\* export_handler = None and matches a handler carries that handler after the
\* error, and the unsupported module and the ones after it are as they were. So
\* a failed export can leave a strict subset of the handlers assigned.
C20_FailedExportKeepsHandlers ==
    (pc = "raised" /\ error.where = "set_export_handler") =>
        \E k \in DOMAIN pre :
            /\ Unsupported(k)
            /\ \A i \in 1..(k - 1) : ~Unsupported(i)
            /\ \A i \in 1..(k - 1) :
                  IF pre[i].export_handler = Attr(NoneHandler) /\ ~NoMatch(handlers, pre[i].cls)
                  THEN /\ hasattr(modules[i].export_handler)
                       /\ getattr(modules[i].export_handler).handler
                             = handler_from_module(handlers, pre[i].cls).name
                       /\ getattr(modules[i].export_handler).id >= 1
                  ELSE modules[i].export_handler = pre[i].export_handler
            /\ \A i \in k..Len(pre) : modules[i].export_handler = pre[i].export_handler

\* the export failed on the second module after a handler had been installed on
\* the first: the first has its handler, the second has none
C20_Witness ==
    /\ pc = "raised"
    /\ error.where = "set_export_handler"
    /\ pre[1].export_handler = Attr(NoneHandler)
    /\ hasattr(modules[1].export_handler)
    /\ getattr(modules[1].export_handler) # NoneHandler
    /\ Unsupported(2)
    /\ modules[2].export_handler = Attr(NoneHandler)

=============================================================================
